---- MODULE Spec2Model ----
(***************************************************************************)
(* The events REST service of src/server/index.ts in front of its MongoDB  *)
(* collection "events".  Every request handler is split at its awaits: the *)
(* synchronous prefix of the handler (validation, clock reads, building    *)
(* the document, issuing the first store call) is one action, and every    *)
(* store call is one action that applies the call atomically to the        *)
(* collection and runs the handler up to its next await or its response.   *)
(* Requests interleave at these points.  Store calls succeed (the catch    *)
(* blocks that answer 500 are not modelled), the clock never runs          *)
(* backwards, and the health and list-all routes, which only read, are     *)
(* left out.                                                               *)
(***************************************************************************)
EXTENDS Integers, Sequences, FiniteSets, TLC

\* ------------------------------------------------------------------ bounds

\* Requests served in one behaviour; request p is the p-th to arrive.
MaxReqs == 2
\* Largest reading of the millisecond clock.
MaxTime == 2

Reqs == 1..MaxReqs

\* ------------------------------------------------------- JavaScript values

\* A key absent from the JSON body or the query string.
Undef == "undefined"

\* JavaScript truthiness of a body or query value (strings only here).
Truthy(v) == v # Undef /\ v # ""

\* new Date(s): the instant (a day number) a date string denotes, or
\* InvalidDate (NaN) for a string that does not parse.
InvalidDate == -1

ParseDate(s) ==
    CASE s = "1970-01-01T00:00:00.000Z" -> 0
      [] s = "2024-10-30" -> 1
      [] s = "2024-10-30T00:00:00.000Z" -> 1
      [] s = "2024-10-31" -> 2
      [] s = "2024-10-31T00:00:00.000Z" -> 2
      [] s = "2024-11-01" -> 3
      [] s = "2024-11-01T00:00:00.000Z" -> 3
      [] OTHER -> InvalidDate

\* The driver's BSON encoding of a Date: the millisecond count as a 64-bit
\* integer, NaN encoded as 0.
ToBSONDate(d) == IF d = InvalidDate THEN 0 ELSE d

\* Date.prototype.toJSON of a stored date, as res.json writes it.
ToISOString(d) ==
    CASE d = 0 -> "1970-01-01T00:00:00.000Z"
      [] d = 1 -> "2024-10-30T00:00:00.000Z"
      [] d = 2 -> "2024-10-31T00:00:00.000Z"
      [] d = 3 -> "2024-11-01T00:00:00.000Z"

\* ------------------------------------------------------------- identifiers

\* An id string is a sequence of characters.  An ObjectId string is 24 hex
\* digits; the model keeps the shape with one digit.
HexDigits == {"a", "b", "A", "B"}

isValid(id) == Len(id) = 1 /\ \A i \in 1..Len(id) : id[i] \in HexDigits

LowerCase(c) == CASE c = "A" -> "a" [] c = "B" -> "b" [] OTHER -> c

\* new ObjectId(id): the identifier a valid id string denotes (hex digits
\* are case-insensitive).
ToObjectId(id) == [i \in 1..Len(id) |-> LowerCase(id[i])]

\* InvalidId checking the length of the id only.
InvalidIdLengthOnly(id) == Len(id) # 1

\* The handlers' check of the path parameter: !ObjectId.isValid(id).
InvalidId(id) == ~isValid(id)

\* The identifiers the driver can assign.
Oids == {<<"a">>, <<"b">>}

\* ObjectId.prototype.toJSON: the lower-case hex string.
ToHexString(o) == o

VARIABLES
    store,      \* the collection: a function from the ObjectIds present to documents
    used,       \* the ObjectIds insertOne has assigned
    now,        \* the last reading of the clock
    req,        \* per request: the handler's position and its local values
    out,        \* the response just sent, if the last step sent one
    deleted     \* per ObjectId: the DELETE requests answered 200 so far

vars == <<store, used, now, req, out, deleted>>

NoArg == [id |-> << >>, body |-> << >>, start |-> Undef, end |-> Undef]
NoOid == << >>

\* A request that has not arrived, and one whose handler has returned (its
\* locals are gone).
Idle ==
    [pc |-> "idle", op |-> "none", arg |-> NoArg, pend |-> << >>,
     target |-> NoOid, calls |-> << >>]
Done == [Idle EXCEPT !.pc = "done"]

NoOut ==
    [op |-> "none", arg |-> NoArg, target |-> NoOid, calls |-> << >>,
     status |-> 0, body |-> {}]

\* Request p arrives: the requests before it have arrived.
Arrives(p) == req[p].pc = "idle" /\ \A q \in Reqs : q < p => req[q].pc # "idle"

\* res.status(s).json(docs) ends the handler of request p, whose locals are r.
Respond(p, r, s, docs) ==
    /\ req' = [req EXCEPT ![p] = Done]
    /\ out' = [op |-> r.op, arg |-> r.arg, target |-> r.target,
               calls |-> r.calls, status |-> s, body |-> docs]

\* await collection.<call>(...): the handler of request p, whose locals are
\* r, issues the call and waits for the store.
Await(p, r, call) ==
    /\ req' = [req EXCEPT ![p] = [r EXCEPT !.pc = call, !.calls = Append(@, call)]]
    /\ out' = NoOut

\* res.json of a stored document.
ToJSON(o, d) ==
    [_id |-> ToHexString(o), title |-> d.title, description |-> d.description,
     date |-> ToISOString(d.date), type |-> d.type, time |-> d.time,
     createdAt |-> d.createdAt, updatedAt |-> d.updatedAt]

\* findOne({_id: o}): the document, or null (no document).
findOne(o) == IF o \in DOMAIN store THEN {ToJSON(o, store[o])} ELSE {}

\* ---------------------------------------------------------------- Create

\* MissingRequired without the check of type.
MissingRequiredNoType(b) == ~Truthy(b.title) \/ ~Truthy(b.date)

\* The validation of POST /api/events.
MissingRequired(b) == ~Truthy(b.title) \/ ~Truthy(b.date) \/ ~Truthy(b.type)

\* NewEvent with its two clock reads taken in the other order.
NewEventSwapped(b, t1, t2) ==
    [title |-> b.title,
     description |-> IF Truthy(b.description) THEN b.description ELSE "",
     date |-> ParseDate(b.date),
     type |-> b.type,
     time |-> IF Truthy(b.time) THEN b.time ELSE "",
     createdAt |-> t2,
     updatedAt |-> t1]

\* The document POST /api/events builds; t1 and t2 are its two clock reads.
NewEvent(b, t1, t2) ==
    [title |-> b.title,
     description |-> IF Truthy(b.description) THEN b.description ELSE "",
     date |-> ParseDate(b.date),
     type |-> b.type,
     time |-> IF Truthy(b.time) THEN b.time ELSE "",
     createdAt |-> t1,
     updatedAt |-> t2]

\* insertOne can still assign an identifier to every insert issued.
IdsLeft ==
    Cardinality(used) + Cardinality({q \in Reqs : req[q].pc = "insertOne"})
        < Cardinality(Oids)

\* POST /api/events up to its first await.
CreateStart(p, b) ==
    LET r == [Idle EXCEPT !.op = "create", !.arg = [NoArg EXCEPT !.body = b]]
    IN  /\ Arrives(p)
        /\ \/ /\ MissingRequired(b)
              /\ Respond(p, r, 400, {})
              /\ UNCHANGED now
           \/ /\ ~MissingRequired(b)
              /\ IdsLeft
              /\ \E t1 \in now..MaxTime : \E t2 \in t1..MaxTime :
                    /\ Await(p, [r EXCEPT !.pend = NewEvent(b, t1, t2)], "insertOne")
                    /\ now' = t2
        /\ UNCHANGED <<store, used, deleted>>

\* The document insertOne writes: the driver's encoding of the event.
Encoded(d) == [d EXCEPT !.date = ToBSONDate(@)]

\* The ObjectIds insertOne may assign: the driver generates an identifier
\* that was never assigned and that no request in flight already names (an
\* identifier is not known to a client before it is generated).
Fresh == Oids \ (used \cup {req[q].target : q \in Reqs})

\* The store applies insertOne: the driver assigns a fresh ObjectId; the
\* handler goes on to findOne.
StoreInsertOne(p) ==
    /\ req[p].pc = "insertOne"
    /\ \E o \in Fresh :
          /\ store' = [x \in DOMAIN store \cup {o} |->
                          IF x = o THEN Encoded(req[p].pend) ELSE store[x]]
          /\ used' = used \cup {o}
          /\ Await(p, [req[p] EXCEPT !.target = o], "findOne")
    /\ UNCHANGED <<now, deleted>>

\* The store answers the findOne of POST: 201 with what it found.
StoreFindOneCreated(p) ==
    /\ req[p].pc = "findOne"
    /\ req[p].op = "create"
    /\ Respond(p, req[p], 201, findOne(req[p].target))
    /\ UNCHANGED <<store, used, now, deleted>>

\* ---------------------------------------------------------------- Update

\* UpdateData testing title, date and type for presence, not truthiness.
UpdateDataDefined(b, t) ==
    LET keys == {f \in {"title", "date", "type", "description", "time"} : b[f] # Undef}
                  \cup {"updatedAt"}
    IN  [f \in keys |->
            CASE f = "updatedAt" -> t
              [] f = "date" -> ParseDate(b.date)
              [] OTHER -> b[f]]

\* UpdateData defaulting description and time to "" as POST does.
UpdateDataDefaults(b, t) ==
    LET keys == {f \in {"title", "date", "type"} : Truthy(b[f])}
                  \cup {"description", "time", "updatedAt"}
    IN  [f \in keys |->
            CASE f = "updatedAt" -> t
              [] f = "date" -> ParseDate(b.date)
              [] OTHER -> IF Truthy(b[f]) THEN b[f] ELSE ""]

\* The $set document PUT /api/events/:id builds; t is its clock read.
UpdateData(b, t) ==
    LET keys == {f \in {"title", "date", "type"} : Truthy(b[f])}
                  \cup {f \in {"description", "time"} : b[f] # Undef}
                  \cup {"updatedAt"}
    IN  [f \in keys |->
            CASE f = "updatedAt" -> t
              [] f = "date" -> ParseDate(b.date)
              [] OTHER -> b[f]]

\* updateOne's {$set: u} on document d.
ApplySet(d, u) ==
    [f \in DOMAIN d \cup DOMAIN u |->
        IF f \in DOMAIN u
        THEN IF f = "date" THEN ToBSONDate(u[f]) ELSE u[f]
        ELSE d[f]]

\* PUT /api/events/:id up to its first await.
UpdateStart(p, id, b) ==
    LET r == [Idle EXCEPT !.op = "update",
                          !.arg = [NoArg EXCEPT !.id = id, !.body = b]]
    IN  /\ Arrives(p)
        /\ \/ /\ InvalidId(id)
              /\ Respond(p, r, 400, {})
              /\ UNCHANGED now
           \/ /\ ~InvalidId(id)
              /\ \E t \in now..MaxTime :
                    /\ Await(p, [r EXCEPT !.pend = UpdateData(b, t),
                                          !.target = ToObjectId(id)], "updateOne")
                    /\ now' = t
        /\ UNCHANGED <<store, used, deleted>>

\* The store applies updateOne: no match answers 404, a match is updated
\* and the handler goes on to findOne.
StoreUpdateOne(p) ==
    /\ req[p].pc = "updateOne"
    /\ \/ /\ req[p].target \notin DOMAIN store
          /\ Respond(p, req[p], 404, {})
          /\ UNCHANGED store
       \/ /\ req[p].target \in DOMAIN store
          /\ store' = [store EXCEPT ![req[p].target] = ApplySet(@, req[p].pend)]
          /\ Await(p, req[p], "findOne")
    /\ UNCHANGED <<used, now, deleted>>

\* The store answers the findOne of PUT: 200 with what it found.
StoreFindOneUpdated(p) ==
    /\ req[p].pc = "findOne"
    /\ req[p].op = "update"
    /\ Respond(p, req[p], 200, findOne(req[p].target))
    /\ UNCHANGED <<store, used, now, deleted>>

\* ---------------------------------------------------------------- Delete

\* DELETE /api/events/:id up to its await.
DeleteStart(p, id) ==
    LET r == [Idle EXCEPT !.op = "delete", !.arg = [NoArg EXCEPT !.id = id]]
    IN  /\ Arrives(p)
        /\ \/ /\ InvalidId(id)
              /\ Respond(p, r, 400, {})
           \/ /\ ~InvalidId(id)
              /\ Await(p, [r EXCEPT !.target = ToObjectId(id)], "deleteOne")
        /\ UNCHANGED <<store, used, now, deleted>>

\* DeleteStatus without the check of deletedCount.
DeleteStatusUnchecked(deletedCount) == 200

\* The status DELETE answers for deleteOne's deletedCount.
DeleteStatus(deletedCount) == IF deletedCount = 0 THEN 404 ELSE 200

\* deleteOne({_id: o}): the documents it removes.
deleteOne(o) == {o} \cap DOMAIN store

\* The store applies deleteOne and the handler answers by deletedCount.
StoreDeleteOne(p) ==
    LET gone == deleteOne(req[p].target)
        s == DeleteStatus(Cardinality(gone))
    IN  /\ req[p].pc = "deleteOne"
        /\ store' = [x \in DOMAIN store \ gone |-> store[x]]
        /\ Respond(p, req[p], s, {})
        /\ deleted' = IF s = 200
                      THEN [o \in Oids |->
                               IF o = req[p].target THEN deleted[o] + 1 ELSE deleted[o]]
                      ELSE deleted
        /\ UNCHANGED <<used, now>>

\* ----------------------------------------------------------- ListByRange

\* InRange with $lt for $lte.
InRangeExclusive(d, f) == ToBSONDate(f.gte) <= d /\ d < ToBSONDate(f.lte)

\* The filter {date: {$gte: ..., $lte: ...}} on a stored date.
InRange(d, f) == ToBSONDate(f.gte) <= d /\ d <= ToBSONDate(f.lte)

\* GET /api/events/range up to its await.
RangeStart(p, s, e) ==
    LET r == [Idle EXCEPT !.op = "range",
                          !.arg = [NoArg EXCEPT !.start = s, !.end = e]]
    IN  /\ Arrives(p)
        /\ \/ /\ ~Truthy(s) \/ ~Truthy(e)
              /\ Respond(p, r, 400, {})
           \/ /\ Truthy(s) /\ Truthy(e)
              /\ Await(p, [r EXCEPT !.pend = [gte |-> ParseDate(s),
                                              lte |-> ParseDate(e)]], "find")
        /\ UNCHANGED <<store, used, now, deleted>>

\* The store answers find(filter).toArray(): 200 with the matches.
StoreFind(p) ==
    /\ req[p].pc = "find"
    /\ Respond(p, req[p], 200,
               {ToJSON(o, store[o]) :
                   o \in {x \in DOMAIN store : InRange(store[x].date, req[p].pend)}})
    /\ UNCHANGED <<store, used, now, deleted>>

\* ------------------------------------------------------------ the inputs

SeedOid == <<"a">>
SeedBody == [title |-> "Ritual", description |-> "rite", date |-> "2024-10-31",
             type |-> "ceremony", time |-> "21:00"]

\* The collection outlives the server: it starts empty, or holding the
\* event a POST of SeedBody has stored under SeedOid at clock reading 0,
\* before the readings of this run.
Init ==
    /\ \/ store = << >> /\ used = {}
       \/ store = [o \in {SeedOid} |-> Encoded(NewEvent(SeedBody, 0, 0))]
            /\ used = {SeedOid}
    /\ now = 1
    /\ req = [p \in Reqs |-> Idle]
    /\ out = NoOut
    /\ deleted = [o \in Oids |-> 0]


Body(ti, de, da, ty, tm) ==
    [title |-> ti, description |-> de, date |-> da, type |-> ty, time |-> tm]

CreateBodies ==
    { Body("Ritual", "rite", "2024-10-31", "ceremony", "21:00"),
      Body("Mass", Undef, "2024-11-01", "ceremony", Undef),
      Body("Mass", Undef, "soon", "ceremony", Undef),
      Body(Undef, "rite", "2024-10-31", "ceremony", "21:00"),
      Body("", Undef, "2024-10-31", "ceremony", Undef),
      Body("Ritual", Undef, Undef, "ceremony", Undef),
      Body("Ritual", Undef, "2024-10-31", "", Undef) }

UpdateBodies ==
    { Body(Undef, Undef, Undef, Undef, Undef),
      Body(Undef, Undef, Undef, Undef, "22:00"),
      Body("", "", "", "", Undef),
      Body("Vigil", Undef, "2024-10-30", Undef, Undef) }

IdStrings == { <<"A">>, <<"b">>, <<"g">>, <<"a", "b">> }

DateStrings == { Undef, "", "2024-10-30", "2024-10-31", "soon" }

Next ==
    \E p \in Reqs :
        \/ \E b \in CreateBodies : CreateStart(p, b)
        \/ StoreInsertOne(p)
        \/ StoreFindOneCreated(p)
        \/ \E id \in IdStrings, b \in UpdateBodies : UpdateStart(p, id, b)
        \/ StoreUpdateOne(p)
        \/ StoreFindOneUpdated(p)
        \/ \E id \in IdStrings : DeleteStart(p, id)
        \/ StoreDeleteOne(p)
        \/ \E s \in DateStrings, e \in DateStrings : RangeStart(p, s, e)
        \/ StoreFind(p)

Spec == Init /\ [][Next]_vars

\* ------------------------------------------------------------- the claims

Required == {"title", "date", "type"}
Supplied == {"title", "description", "date", "type", "time"}

\* Request p arrives in this step; its route and arguments are those of the
\* response when the handler answers at once, of its locals otherwise.
Arriving(p) == req[p].pc = "idle" /\ req'[p].pc # "idle"
Arrived(p) == IF req'[p].pc = "done" THEN out' ELSE req'[p]

\* C1: every stored event has a non-empty title, a date and a non-empty
\* type, whatever requests were served.
RequiredFieldsPersisted ==
    \A o \in DOMAIN store :
        /\ Required \subseteq DOMAIN store[o]
        /\ Truthy(store[o].title)
        /\ Truthy(store[o].type)
        /\ store[o].date \in Nat

\* An update whose body carries empty title, date and type was applied to a
\* stored event.
RequiredFieldsWitness ==
    \E p \in Reqs :
        /\ req[p].pc = "findOne"
        /\ req[p].op = "update"
        /\ req[p].arg.body.title = ""
        /\ req[p].target \in DOMAIN store

\* C2: an updateOne that matches leaves every field the body does not carry,
\* createdAt, the identifier and every other document as they were.
UpdateFrame ==
    [][\A p \in Reqs :
          (req[p].pc = "updateOne" /\ req'[p].pc = "findOne") =>
              LET o == req[p].target
                  b == req[p].arg.body
              IN  /\ o \in DOMAIN store
                  /\ DOMAIN store' = DOMAIN store
                  /\ \A x \in DOMAIN store \ {o} : store'[x] = store[x]
                  /\ \A f \in Supplied : b[f] = Undef => store'[o][f] = store[o][f]
                  /\ store'[o].createdAt = store[o].createdAt]_vars

\* An update carrying only time was applied while another event is stored.
UpdateFrameWitness ==
    \E p \in Reqs :
        /\ req[p].pc = "findOne"
        /\ req[p].op = "update"
        /\ req[p].arg.body.time = "22:00"
        /\ req[p].arg.body.title = Undef
        /\ store[req[p].target].time = "22:00"
        /\ Cardinality(DOMAIN store) = 2

\* C3: PUT or DELETE with an id that is no ObjectId string answers 400 at
\* once: no store call is issued and the collection is unchanged.
InvalidIdRejected ==
    [][\A p \in Reqs :
          (/\ Arriving(p)
           /\ Arrived(p).op \in {"update", "delete"}
           /\ ~isValid(Arrived(p).arg.id)) =>
              /\ req'[p].pc = "done"
              /\ out'.status = 400
              /\ out'.calls = << >>
              /\ store' = store]_vars

\* A PUT with a malformed id and a body that carries fields was answered 400
\* while an event is stored.
InvalidIdWitness ==
    /\ out.op = "update"
    /\ out.status = 400
    /\ out.arg.id = <<"g">>
    /\ out.arg.body.title = "Vigil"
    /\ DOMAIN store # {}

\* C4: POST with title, date or type absent or falsy answers 400 at once and
\* leaves the collection as it was.
MissingFieldsRejected ==
    [][\A p \in Reqs :
          (/\ Arriving(p)
           /\ Arrived(p).op = "create"
           /\ \E f \in Required : ~Truthy(Arrived(p).arg.body[f])) =>
              /\ req'[p].pc = "done"
              /\ out'.status = 400
              /\ out'.calls = << >>
              /\ store' = store
              /\ used' = used]_vars

\* A POST without type was answered 400 while an event is stored.
MissingFieldsWitness ==
    /\ out.op = "create"
    /\ out.status = 400
    /\ out.arg.body.type = ""
    /\ Truthy(out.arg.body.title)
    /\ DOMAIN store # {}

\* C5: a range request without start or end answers 400; with both present
\* it queries the store, and for start and end that parse the 200 response
\* holds exactly the stored events with start <= date <= end.
RangeExact ==
    [][\A p \in Reqs :
          /\ (Arriving(p) /\ Arrived(p).op = "range") =>
                LET a == Arrived(p).arg
                IN  IF a.start \in {Undef, ""} \/ a.end \in {Undef, ""}
                    THEN req'[p].pc = "done" /\ out'.status = 400
                    ELSE req'[p].pc = "find"
          /\ (req[p].pc = "find" /\ req'[p].pc = "done") =>
                LET lo == ParseDate(req[p].arg.start)
                    hi == ParseDate(req[p].arg.end)
                IN  /\ out'.status = 200
                    /\ (lo # InvalidDate /\ hi # InvalidDate) =>
                          /\ {e._id : e \in out'.body} =
                                {ToHexString(o) : o \in
                                    {x \in DOMAIN store :
                                        lo <= store[x].date /\ store[x].date <= hi}}
                          /\ \A e \in out'.body :
                                e = ToJSON(ToObjectId(e._id), store[ToObjectId(e._id)])
       ]_vars

\* A range request returned one of two stored events, the one dated on its
\* end bound.
RangeWitness ==
    /\ out.op = "range"
    /\ out.status = 200
    /\ Cardinality(DOMAIN store) = 2
    /\ Cardinality(out.body) = 1
    /\ ParseDate(out.arg.start) # InvalidDate
    /\ ParseDate(out.arg.start) < ParseDate(out.arg.end)
    /\ \E e \in out.body : ParseDate(e.date) = ParseDate(out.arg.end)

\* C6: the record a POST returns with 201 has the title, date and type of
\* the body, "" for an omitted description or time, and createdAt equal to
\* updatedAt.
CreatedAsGiven ==
    (out.op = "create" /\ out.status = 201
        /\ ParseDate(out.arg.body.date) # InvalidDate) =>
        \A e \in out.body :
            /\ e.title = out.arg.body.title
            /\ ParseDate(e.date) = ParseDate(out.arg.body.date)
            /\ e.type = out.arg.body.type
            /\ out.arg.body.description = Undef => e.description = ""
            /\ out.arg.body.time = Undef => e.time = ""
            /\ e.createdAt = e.updatedAt

\* C7: every stored event has createdAt <= updatedAt.
CreatedBeforeUpdated ==
    \A o \in DOMAIN store : store[o].createdAt <= store[o].updatedAt

\* An update was applied to an event created at a later clock reading than
\* the seed's, and the event's updatedAt is past its createdAt.
CreatedBeforeUpdatedWitness ==
    \E p \in Reqs :
        /\ req[p].pc = "findOne"
        /\ req[p].op = "update"
        /\ req[p].target \in DOMAIN store
        /\ store[req[p].target].createdAt > 1
        /\ store[req[p].target].updatedAt = req[p].pend.updatedAt

\* C8: an updateOne that matches strictly increases the event's updatedAt.
UpdatedAtIncreases ==
    [][\A p \in Reqs :
          (req[p].pc = "updateOne" /\ req'[p].pc = "findOne") =>
              store'[req[p].target].updatedAt > store[req[p].target].updatedAt]_vars

\* C9: of the DELETE requests for one event exactly one is answered 200:
\* an event leaves the collection by a DELETE answered 200 and by nothing
\* else, it never returns, and every DELETE that finds it gone is answered
\* 404.
DeleteOnce ==
    /\ \A o \in Oids :
          /\ deleted[o] <= 1
          /\ deleted[o] = 1 <=> (o \in used /\ o \notin DOMAIN store)
    /\ out.op = "delete" /\ out.status # 400 =>
          /\ out.target \notin DOMAIN store
          /\ out.status \in {200, 404}
          /\ out.status = 200 => deleted[out.target] = 1

\* A second DELETE for an event was answered 404 after the first was
\* answered 200.
DeleteOnceWitness ==
    /\ out.op = "delete"
    /\ out.status = 404
    /\ deleted[out.target] = 1

\* C10: a PUT answered 200 returns the updated record, not null.
UpdateReturnsRecord ==
    (out.op = "update" /\ out.status = 200) =>
        \E e \in out.body : e._id = ToHexString(out.target)

====
